---- MODULE Spec2Model ----
(***************************************************************************)
(* State-machine model of the chronicle receiver                           *)
(* (chronicle-receiver/receiver_plugin.cpp): the persistent chainbase      *)
(* store with its undo stack, the fork adjudication of receive_result,     *)
(* the ABI registry, the read loop and the pause (backpressure) logic.     *)
(*                                                                         *)
(* The chainbase database is used through db->revision, set_revision,      *)
(* start_undo_session, undo, commit, create, modify and remove.  Its       *)
(* behaviour at those call sites is the one of chainbase's generic_index:  *)
(*   - start_undo_session(true) appends an undo state whose revision is    *)
(*     ++_revision;                                                        *)
(*   - undo() returns at once when the stack is empty, else it restores    *)
(*     the tables, pops the last undo state and decrements _revision;      *)
(*   - commit(r) pops undo states from the front while their revision      *)
(*     is <= r;                                                            *)
(*   - set_revision(r) throws std::logic_error when the stack is not       *)
(*     empty;                                                              *)
(*   - a session that is destroyed without push() undoes itself;           *)
(*   - create() throws when a unique index would hold a duplicate key.     *)
(***************************************************************************)
EXTENDS Integers, Sequences, FiniteSets, TLC

\* ------------------------------------------------------------------ bounds
\* highest block number the server sends
MaxBlock == 3
\* number of distinct non-zero block ids (checksum256 values)
MaxId == 2
\* number of contract accounts
MaxAccount == 1
\* a frame that would take the store revision above this is not followed
MaxRevision == 4
\* max-queue-size, the configured limit of the reactor queue
MaxQueueSize == 1
\* highest last_irreversible block number the server reports
MaxLib == 2
\* the clean advance: the first block the server sends, the number of
\* consecutive blocks, and how far last_irreversible is behind each block
FirstBlock == 100
ChainLen == 4
LibLag == 2

BlockNums == 1..MaxBlock
BlockIds == 1..MaxId
Accounts == 1..MaxAccount

\* ------------------------------------------------------- program constants
\* checksum256{} : the zeroed digest
ZeroId == 0
\* first pause, in milliseconds
PauseStart == 100
\* pause_time_msec is doubled while it is below this value
PauseLimit == 8000
\* a receiver_pause event is published from this pause on
PauseReport == 2000

\* ------------------------------------------------------------ chainbase db
\* A table is a set of rows.  An undo state keeps the revision it was given
\* and the tables as they were when the session was started.  commit_cursor
\* is history: the revision the last commit() was called with.

EmptyDb ==
  [ revision |-> 0,
    commit_cursor |-> 0,
    stack |-> << >>,
    state_index |-> << >>,
    received_block_index |-> {},
    contract_abi_index |-> {} ]

db_tables(d) ==
  [ state_index |-> d.state_index,
    received_block_index |-> d.received_block_index,
    contract_abi_index |-> d.contract_abi_index ]

\* db->set_revision(r): only legal with an empty undo stack
db_set_revision_throws(d) == Len(d.stack) # 0

db_set_revision(d, r) == [d EXCEPT !.revision = r]

\* db->start_undo_session(true)
db_start_undo_session(d) ==
  [d EXCEPT !.revision = d.revision + 1,
            !.stack = Append(d.stack,
                             [revision |-> d.revision + 1, old |-> db_tables(d)])]

\* db->undo(), also the destructor of a session that was not pushed
db_undo(d) ==
  IF Len(d.stack) = 0
    THEN d
    ELSE LET top == d.stack[Len(d.stack)]
         IN [ revision |-> d.revision - 1,
              commit_cursor |-> d.commit_cursor,
              stack |-> SubSeq(d.stack, 1, Len(d.stack) - 1),
              state_index |-> top.old.state_index,
              received_block_index |-> top.old.received_block_index,
              contract_abi_index |-> top.old.contract_abi_index ]

RECURSIVE PopCommitted(_, _)
PopCommitted(stack, r) ==
  IF Len(stack) > 0 /\ stack[1].revision <= r
    THEN PopCommitted(Tail(stack), r)
    ELSE stack

\* a commit that forgets to drop the undo states it covers
commit_keeps_states(d, r) == [d EXCEPT !.commit_cursor = r]

\* db->commit(r)
db_commit(d, r) ==
  [d EXCEPT !.stack = PopCommitted(d.stack, r), !.commit_cursor = r]

\* a recovery that undoes the last session only
undo_last_only(d) == db_undo(d)

\* while (index.stack().size() > 0) db->undo();
RECURSIVE db_undo_all(_)
db_undo_all(d) == IF Len(d.stack) > 0 THEN db_undo_all(db_undo(d)) ELSE d

\* while (db->revision() >= block_num) db->undo();
\* The loop cannot leave once the stack is empty and the revision is still
\* >= block_num: undo() changes nothing then.  hang tells that case.
RECURSIVE rollback(_, _)
rollback(d, block_num) ==
  IF d.revision >= block_num
    THEN IF Len(d.stack) = 0
           THEN [hang |-> TRUE, db |-> d]
           ELSE rollback(db_undo(d), block_num)
    ELSE [hang |-> FALSE, db |-> d]


\* ------------------------------------------------------------ wire values
\* std::optional<T> is the empty sequence or a sequence of one value.
None == << >>
Some(v) == << v >>
IsSome(o) == Len(o) > 0

\* account_object.abi bytes: 0 is the empty byte string, the others are
\* non-empty; abieos accepts every non-empty one except BadAbi.
EmptyAbi == 0
BadAbi == 3
AbiBytes == {1, 2, BadAbi}

\* abieos_set_abi_bin / bin_to_native(abi_def): does the byte string parse
AbiParses(data) == data # EmptyAbi /\ data # BadAbi

\* plugin_initialize: the action blacklist
blacklist_actions ==
  { [account |-> "eosio", name |-> "onblock"],
    [account |-> "blocktwitter", name |-> "tweet"] }

\* the priority every event is published with
channel_priority == 50

Channels ==
  { "forks", "blocks", "block_table_deltas", "transaction_traces",
    "abi_updates", "abi_removals", "abi_errors", "table_row_updates",
    "receiver_pauses" }

\* a channel that delivers the newest publication first
publish_first(m, chan, e) ==
  [m EXCEPT !.pub = << [chan |-> chan, priority |-> channel_priority, ev |-> e] >> \o @]

\* chan.publish(channel_priority, e): the handler's publications, in order
Publish(m, chan, e) ==
  [m EXCEPT !.pub = Append(@, [chan |-> chan, priority |-> channel_priority, ev |-> e])]

\* a handler ends by returning or by throwing
Ok(m) == [thrown |-> FALSE, m |-> m]
Throw(m) == [thrown |-> TRUE, m |-> m]

\* the next statement runs unless the one before has thrown
AndThen(r, next(_)) == IF r.thrown THEN r ELSE next(r.m)

\* ------------------------------------------------------------ ABI registry
NoCtxt == [created |-> FALSE, contracts |-> {}]

init_contract_abi_ctxt(m) ==
  IF m.contract_abi_ctxt.created
    THEN [m EXCEPT !.contract_abi_imported = {},
                   !.contract_abi_ctxt = [created |-> TRUE, contracts |-> {}]]
    ELSE [m EXCEPT !.contract_abi_ctxt = [created |-> TRUE, contracts |-> {}]]

\* abieos_set_abi_bin on a context: contracts.insert keeps an entry that is
\* already there
ctxt_set_abi(ctxt, account, data) ==
  IF \E c \in ctxt.contracts : c.account = account
    THEN ctxt
    ELSE [ctxt EXCEPT !.contracts = @ \cup {[account |-> account, abi |-> data]}]

abi_rows(d, account) == { r \in d.contract_abi_index : r.account = account }

\* the context is rebuilt when it has the account's ABI
reset_if_imported(m, account) ==
  IF account \in m.contract_abi_imported THEN init_contract_abi_ctxt(m) ELSE m

\* a removal that tells nobody
remove_silently(m, account) ==
  [m EXCEPT !.db.contract_abi_index = @ \ abi_rows(m.db, account)]

\* lines 633-644, after the context was looked at
remove_contract_abi(m, account) ==
  IF abi_rows(m.db, account) # {}
    THEN Publish([m EXCEPT !.db.contract_abi_index = @ \ abi_rows(m.db, account)],
                 "abi_removals",
                 [block_num |-> m.head, block_timestamp |-> m.block_timestamp,
                  account |-> account])
    ELSE m

clear_contract_abi(m, account) ==
  remove_contract_abi(reset_if_imported(m, account), account)

abi_error(m, account) ==
  Publish(m, "abi_errors",
          [block_num |-> m.head, block_timestamp |-> m.block_timestamp,
           account |-> account])

\* lines 660-673: the account is imported and its ABI row created or modified
store_contract_abi(m, account, data) ==
  [m EXCEPT !.contract_abi_ctxt = ctxt_set_abi(@, account, data),
            !.contract_abi_imported = @ \cup {account},
            !.db.contract_abi_index =
               (@ \ abi_rows(m.db, account)) \cup {[account |-> account, abi |-> data]}]

\* a registry that stores the ABI and tells nobody
publish_no_abi_update(m, account, data, subscribers) == m

\* lines 676-692: the abi_updates event, or the error of the second parse
publish_abi_update(m, account, data, subscribers) ==
  IF "abi_updates" \in subscribers
    THEN IF AbiParses(data)
           THEN Publish(m, "abi_updates",
                        [block_num |-> m.head, block_timestamp |-> m.block_timestamp,
                         account |-> account, abi_bytes |-> data])
           ELSE abi_error(m, account)
    ELSE m

\* a registry that records the bytes the decoder has rejected
set_contract_abi_unchecked(m, account, data, subscribers) ==
  IF ~AbiParses(data)
    THEN abi_error(store_contract_abi(m, account, data), account)
    ELSE publish_abi_update(store_contract_abi(m, account, data),
                            account, data, subscribers)

\* lines 657-697, after the context was looked at
set_contract_abi(m, account, data, subscribers) ==
  IF ~AbiParses(data)
    THEN abi_error(m, account)
    ELSE publish_abi_update(store_contract_abi(m, account, data),
                            account, data, subscribers)

save_contract_abi(m, account, data, subscribers) ==
  set_contract_abi(reset_if_imported(m, account), account, data, subscribers)

\* a registry that never has an ABI ready
abi_never_ready(m, account) == [ready |-> FALSE, m |-> m]

\* returns the answer and the registry after the call
get_contract_abi_ready(m, account) ==
  IF account \in m.contract_abi_imported
    THEN [ready |-> TRUE, m |-> m]
    ELSE LET found == abi_rows(m.db, account)
         IN IF found # {}
              THEN LET row == CHOOSE r \in found : TRUE
                   IN [ready |-> TRUE,
                       m |-> [m EXCEPT
                                !.contract_abi_ctxt =
                                   IF AbiParses(row.abi)
                                     THEN ctxt_set_abi(@, account, row.abi) ELSE @,
                                !.contract_abi_imported = @ \cup {account}]]
              ELSE [ready |-> FALSE, m |-> m]


\* ------------------------------------------------------- block, deltas, traces
\* receive_block: the block event carries head and irreversible as they are
\* after receive_result has taken them from the frame
receive_block(m, block) ==
  IF ~block.decodes
    THEN Throw(m)
    ELSE Ok(Publish([m EXCEPT !.block_timestamp = block.timestamp],
                    "blocks",
                    [block_num |-> m.head, last_irreversible |-> m.irreversible]))

\* rows of an "account" delta, from row i on
RECURSIVE account_rows(_, _, _, _)
account_rows(m, rows, i, subscribers) ==
  IF i > Len(rows)
    THEN Ok(m)
    ELSE LET row == rows[i]
         IN IF ~row.present
              THEN account_rows(m, rows, i + 1, subscribers)
              ELSE IF ~row.decodes
                THEN Throw(m)
                ELSE IF row.abi = EmptyAbi
                  THEN account_rows(clear_contract_abi(m, row.account),
                                    rows, i + 1, subscribers)
                  ELSE account_rows(save_contract_abi(m, row.account, row.abi, subscribers),
                                    rows, i + 1, subscribers)

\* a demultiplexer that takes every row for decodable
row_always_decoded(r, row) ==
  Publish(r.m, "table_row_updates",
          [block_num |-> r.m.head, block_timestamp |-> r.m.block_timestamp,
           code |-> row.account, added |-> row.present])

\* lines 597-611: the row is published decoded, or as a missing ABI
contract_row_event(r, row) ==
  IF r.ready
    THEN Publish(r.m, "table_row_updates",
                 [block_num |-> r.m.head, block_timestamp |-> r.m.block_timestamp,
                  code |-> row.account, added |-> row.present])
    ELSE Publish(r.m, "abi_errors",
                 [block_num |-> r.m.head, block_timestamp |-> r.m.block_timestamp,
                  account |-> row.account])

\* rows of a "contract_row" delta, from row i on
RECURSIVE contract_rows(_, _, _)
contract_rows(m, rows, i) ==
  IF i > Len(rows)
    THEN Ok(m)
    ELSE IF ~rows[i].decodes
      THEN Throw(m)
      ELSE contract_rows(
             contract_row_event(get_contract_abi_ready(m, rows[i].account), rows[i]),
             rows, i + 1)

\* a table_delta_v0 whose event is published before its rows are handled
table_delta_event_first(m, delta, subscribers) ==
  IF ~delta.decodes
    THEN Throw(m)
    ELSE IF delta.name = "account"
      THEN account_rows(Publish(m, "block_table_deltas",
                                [block_timestamp |-> m.block_timestamp,
                                 name |-> delta.name, rows |-> delta.rows]),
                        delta.rows, 1, subscribers)
      ELSE contract_rows(Publish(m, "block_table_deltas",
                                 [block_timestamp |-> m.block_timestamp,
                                  name |-> delta.name, rows |-> delta.rows]),
                         delta.rows, 1)

\* one table_delta_v0
table_delta(m, delta, subscribers) ==
  IF ~delta.decodes
    THEN Throw(m)
    ELSE AndThen(
           IF delta.name = "account"
             THEN account_rows(m, delta.rows, 1, subscribers)
             ELSE IF delta.name = "contract_row"
                     /\ ("table_row_updates" \in subscribers
                         \/ "abi_errors" \in subscribers)
               THEN contract_rows(m, delta.rows, 1)
               ELSE Ok(m),
           LAMBDA mm :
             Ok(Publish(mm, "block_table_deltas",
                        [block_timestamp |-> mm.block_timestamp,
                         name |-> delta.name, rows |-> delta.rows])))

RECURSIVE table_deltas(_, _, _, _)
table_deltas(m, tables, i, subscribers) ==
  IF i > Len(tables)
    THEN Ok(m)
    ELSE AndThen(table_delta(m, tables[i], subscribers),
                 LAMBDA mm : table_deltas(mm, tables, i + 1, subscribers))

receive_deltas(m, deltas, subscribers) ==
  IF ~deltas.decodes
    THEN Throw(m)
    ELSE table_deltas(m, deltas.tables, 1, subscribers)

\* a filter that drops a trace for any of its actions
blacklisted_any_action(trace) ==
  \E i \in 1..Len(trace.traces) :
    [account |-> trace.traces[i].account, name |-> trace.traces[i].name]
      \in blacklist_actions

blacklisted(trace) ==
  /\ Len(trace.traces) > 0
  /\ [account |-> trace.traces[1].account, name |-> trace.traces[1].name]
       \in blacklist_actions

RECURSIVE transaction_traces(_, _, _)
transaction_traces(m, traces, i) ==
  IF i > Len(traces)
    THEN Ok(m)
    ELSE LET tr == traces[i]
         IN IF ~tr.decodes
              THEN Throw(m)
              ELSE IF blacklisted(tr)
                THEN transaction_traces(m, traces, i + 1)
                ELSE transaction_traces(
                       Publish(m, "transaction_traces",
                               [block_num |-> m.head,
                                block_timestamp |-> m.block_timestamp,
                                trace |-> tr]),
                       traces, i + 1)

receive_traces(m, traces, subscribers) ==
  IF "transaction_traces" \in subscribers
    THEN IF ~traces.decodes
           THEN Throw(m)
           ELSE transaction_traces(m, traces.traces, 1)
    ELSE Ok(m)


\* ----------------------------------------------------------- receive_result
state_object(m) ==
  [ head |-> m.head, head_id |-> m.head_id,
    irreversible |-> m.irreversible, irreversible_id |-> m.irreversible_id ]

\* a save_state that creates a state_object each time
save_state_creates(m) == [m EXCEPT !.db.state_index = Append(@, state_object(m))]

\* save_state: modify the first state_object, or create it
save_state(m) ==
  IF Len(m.db.state_index) > 0
    THEN [m EXCEPT !.db.state_index[1] = state_object(m)]
    ELSE [m EXCEPT !.db.state_index = << state_object(m) >>]

\* db->create<received_block_object> violates the unique by_blocknum index
block_index_taken(d, block_num) ==
  \E r \in d.received_block_index : r.block_index = block_num

\* a truncation that removes nothing
truncate_nothing(index, irreversible) == index

\* a truncation that removes the irreversible block's entry as well
truncate_through(index, irreversible) ==
  { r \in index : r.block_index > irreversible }

\* truncate old blocks up to previously known irreversible: the loop removes
\* idx.begin() while its block_index is below irreversible
truncate_old_blocks(index, irreversible) ==
  { r \in index : r.block_index >= irreversible }

\* a frame handler that never records the block
add_no_block(m, block_num, block_id) == Ok(m)

\* lines 470-483, inside the undo session
add_received_block(m, block_num, block_id) ==
  IF block_num > m.irreversible
    THEN IF block_index_taken(m.db, block_num)
           THEN Throw(m)
           ELSE Ok([m EXCEPT !.db.received_block_index =
                      truncate_old_blocks(
                        @ \cup {[block_index |-> block_num, block_id |-> block_id]},
                        m.irreversible)])
    ELSE Ok(m)

\* a frame handler that keeps the irreversible position it had
take_head_only(m, f) ==
  [m EXCEPT !.head = f.this_block[1].block_num,
            !.head_id = f.this_block[1].block_id]

\* lines 485-488
take_positions(m, f) ==
  [m EXCEPT !.head = f.this_block[1].block_num,
            !.head_id = f.this_block[1].block_id,
            !.irreversible = f.last_irreversible.block_num,
            !.irreversible_id = f.last_irreversible.block_id]

\* a handler that takes the traces before the deltas
traces_before_deltas(m, f, subscribers) ==
  AndThen(
    AndThen(
      IF IsSome(f.block) THEN receive_block(m, f.block[1]) ELSE Ok(m),
      LAMBDA m1 :
        IF IsSome(f.traces)
          THEN receive_traces(m1, f.traces[1], subscribers) ELSE Ok(m1)),
    LAMBDA m2 :
      IF IsSome(f.deltas)
        THEN receive_deltas(m2, f.deltas[1], subscribers) ELSE Ok(m2))

\* lines 490-495
receive_payloads(m, f, subscribers) ==
  AndThen(
    AndThen(
      IF IsSome(f.block) THEN receive_block(m, f.block[1]) ELSE Ok(m),
      LAMBDA m1 :
        IF IsSome(f.deltas)
          THEN receive_deltas(m1, f.deltas[1], subscribers) ELSE Ok(m1)),
    LAMBDA m2 :
      IF IsSome(f.traces)
        THEN receive_traces(m2, f.traces[1], subscribers) ELSE Ok(m2))

\* a commit that does not wait for the exporter
commit_rev_ungated(irreversible, will_ack, acked_block) == irreversible

\* lines 503-508: the revision handed to db->commit
commit_rev(irreversible, will_ack, acked_block) ==
  IF will_ack /\ acked_block < irreversible THEN acked_block ELSE irreversible

\* a receiver that trusts every prev_block
prev_block_unchecked(m, f) == FALSE

\* line 464: the frame does not continue the block the receiver is at
prev_block_mismatch(m, f) ==
  /\ m.head > 0
  /\ (~IsSome(f.prev_block) \/ f.prev_block[1].block_id # m.head_id)

\* lines 442-466: ret is "go" when the frame passes, "throw" or "hang" else
adjudicate(m, f) ==
  LET block_num == f.this_block[1].block_num
  IN IF block_num > f.last_irreversible.block_num
       THEN IF block_num <= m.head
              THEN LET depth == m.head - block_num
                       m1 == init_contract_abi_ctxt(m)
                       rb == rollback(m1.db, block_num)
                       m2 == [m1 EXCEPT !.db = rb.db]
                   IN IF rb.hang
                        THEN [ret |-> "hang", m |-> m2]
                        ELSE IF rb.db.revision <= 0
                          THEN [ret |-> "throw", m |-> m2]
                          ELSE [ret |-> "go",
                                m |-> Publish(m2, "forks",
                                              [fork_block_num |-> block_num,
                                               depth |-> depth,
                                               fork_reason |-> "network"])]
              ELSE IF prev_block_mismatch(m, f)
                THEN [ret |-> "throw", m |-> m]
                ELSE [ret |-> "go", m |-> m]
       ELSE [ret |-> "go", m |-> m]

\* lines 470-495: what runs inside the undo session
session_body(m, f, subscribers) ==
  AndThen(add_received_block(m, f.this_block[1].block_num, f.this_block[1].block_id),
          LAMBDA m1 : receive_payloads(take_positions(m1, f), f, subscribers))

\* a session that is left without push() and keeps what it has written
session_kept(m) == m

\* the destructor of a session that was not pushed
session_dropped(m) == [m EXCEPT !.db = db_undo(@)]

\* a frame handler that commits the scope it has just pushed
session_pushed_committed(m, will_ack, acked_block) ==
  [m EXCEPT !.db = db_commit(@, m.db.revision)]

\* lines 500-508: save_state, push, commit
session_pushed(m, will_ack, acked_block) ==
  [m EXCEPT !.db = db_commit(@, commit_rev(m.irreversible, will_ack, acked_block))]

\* lines 497-510: how the session that ran as r ends
session_end(r, will_ack, acked_block, is_aborting) ==
  IF r.thrown
    THEN [ret |-> "throw", m |-> session_dropped(r.m)]
    ELSE IF is_aborting
      THEN [ret |-> "false", m |-> session_dropped(r.m)]
      ELSE [ret |-> "true",
            m |-> session_pushed(save_state(r.m), will_ack, acked_block)]

\* the session of r, started only now that the frame's writes are done
late_session(r) == [r EXCEPT !.m.db = db_start_undo_session(@)]

\* a frame handler that writes first and opens its undo session afterwards
in_session_late(m, f, will_ack, acked_block, is_aborting, subscribers) ==
  session_end(late_session(session_body(m, f, subscribers)),
              will_ack, acked_block, is_aborting)

\* lines 468-510: from start_undo_session to the return.  A session that is
\* left by an exception or by the early return undoes itself.
in_session(m, f, will_ack, acked_block, is_aborting, subscribers) ==
  session_end(session_body([m EXCEPT !.db = db_start_undo_session(@)], f, subscribers),
              will_ack, acked_block, is_aborting)

\* line 468 on, for a frame that adjudicate has let pass
adjudicated(a, f, will_ack, acked_block, is_aborting, subscribers) ==
  IF a.ret # "go"
    THEN a
    ELSE in_session(a.m, f, will_ack, acked_block, is_aborting, subscribers)

\* a frame without this_block whose last_irreversible is taken all the same
no_block_takes_irreversible(m, f) ==
  [ret |-> "true",
   m |-> [m EXCEPT !.irreversible = f.last_irreversible.block_num,
                   !.irreversible_id = f.last_irreversible.block_id]]

\* lines 429-430: nothing is done for a frame without this_block
no_block(m, f) == [ret |-> "true", m |-> m]

\* ret: "true" / "false" as returned, "throw" for an exception that reaches
\* catch_and_close, "hang" when the rollback loop cannot end
receive_result(m, f, will_ack, acked_block, is_aborting, subscribers) ==
  IF ~f.decodes
    THEN [ret |-> "throw", m |-> m]
    ELSE IF ~IsSome(f.this_block)
      THEN no_block(m, f)
      ELSE IF m.db.revision < f.this_block[1].block_num
        THEN IF db_set_revision_throws(m.db)
               THEN [ret |-> "throw", m |-> m]
               ELSE adjudicated(
                      adjudicate([m EXCEPT !.db =
                                    db_set_revision(@, f.this_block[1].block_num)], f),
                      f, will_ack, acked_block, is_aborting, subscribers)
        ELSE adjudicated(adjudicate(m, f),
                         f, will_ack, acked_block, is_aborting, subscribers)


\* ------------------------------------------------------ load_state, requests
\* lines 250-286; acked is exporter_acked_block after the call
load_state(m, will_ack, acked_block) ==
  LET did_undo == Len(m.db.stack) > 0
      depth == Len(m.db.stack)
      m1 == IF did_undo THEN [m EXCEPT !.db = db_undo_all(@)] ELSE m
      m2 == IF Len(m1.db.state_index) > 0
              THEN LET o == m1.db.state_index[1]
                   IN [m1 EXCEPT !.head = o.head, !.head_id = o.head_id,
                                 !.irreversible = o.irreversible,
                                 !.irreversible_id = o.irreversible_id]
              ELSE m1
      m3 == IF did_undo
              THEN Publish(m2, "forks",
                           [fork_block_num |-> m2.head, depth |-> depth,
                            fork_reason |-> "restart"])
              ELSE m2
  IN [m |-> init_contract_abi_ctxt(m3),
      acked |-> IF will_ack THEN m3.head ELSE acked_block]

\* lines 389-416: the get_blocks_request_v0 that is sent
request_blocks(m) ==
  [ start_block_num |-> m.head + 1,
    have_positions |->
      { r \in m.db.received_block_index :
          r.block_index >= m.irreversible /\ r.block_index <= m.head } ]

\* ------------------------------------------------------------- check_pause
\* 2^30: uint32_t values of the model stay below it
Two30 == 1073741824

\* (a - b >= c) on uint32_t: when a < b the difference wraps to
\* 2^32 - (b - a), which is >= c  iff  (2^30-(b-a)) + (2^30-c) >= -2^31
u32_sub_ge(a, b, c) ==
  IF a >= b
    THEN a - b >= c
    ELSE (Two30 - (b - a)) + (Two30 - c) >= (0 - Two30) - Two30

\* line 341-343
must_pause(slowdown, will_ack, hd, acked_block, max_unconfirmed, queue_size, max_queue) ==
  \/ slowdown
  \/ (will_ack /\ u32_sub_ge(hd, acked_block, max_unconfirmed))
  \/ queue_size > max_queue

\* lines 347-352
next_pause_time(pause) ==
  IF pause = 0
    THEN PauseStart
    ELSE IF pause < PauseLimit THEN pause * 2 ELSE pause


\* ------------------------------------------------------------------- state
VARIABLES
  db,                        \* the chainbase store (survives a restart)
  head, head_id, irreversible, irreversible_id, block_timestamp,
  contract_abi_ctxt, contract_abi_imported,
  exporter_will_ack, exporter_acked_block, exporter_max_unconfirmed,
  pause_time_msec, slowdown_requested, aborting,
  subscribers,               \* channels that have subscribers
  stream_open,               \* the websocket's socket is open
  pc,                        \* the pending continuation of the read loop
  pending,                   \* how many async_read and async_wait are outstanding
  request,                   \* the get_blocks_request_v0 whose async_write is pending
  result,                    \* the frame the last receive_result was given
  ret,                       \* the last callback, for receive_result how it ended
  published                  \* what the last handler published, in order

mem_vars ==
  << db, head, head_id, irreversible, irreversible_id, block_timestamp,
     contract_abi_ctxt, contract_abi_imported >>
ack_vars == << exporter_will_ack, exporter_acked_block, exporter_max_unconfirmed >>
vars ==
  << mem_vars, ack_vars, pause_time_msec, slowdown_requested, aborting,
     subscribers, stream_open, pc, pending, request, result, ret, published >>

\* the fields a handler works on
Mem ==
  [ db |-> db, head |-> head, head_id |-> head_id,
    irreversible |-> irreversible, irreversible_id |-> irreversible_id,
    block_timestamp |-> block_timestamp,
    contract_abi_ctxt |-> contract_abi_ctxt,
    contract_abi_imported |-> contract_abi_imported,
    pub |-> << >> ]

SetMem(m) ==
  /\ db' = m.db
  /\ head' = m.head
  /\ head_id' = m.head_id
  /\ irreversible' = m.irreversible
  /\ irreversible_id' = m.irreversible_id
  /\ block_timestamp' = m.block_timestamp
  /\ contract_abi_ctxt' = m.contract_abi_ctxt
  /\ contract_abi_imported' = m.contract_abi_imported

NoFrame == [decodes |-> FALSE]

\* no asynchronous operation of the read loop is outstanding
NoPending == [async_read |-> 0, async_wait |-> 0]

\* the operation whose completion handler runs when the loop is at pc
operation(at) ==
  IF at \in {"read_abi", "async_read", "failing_read"}
    THEN "async_read"
    ELSE IF at = "async_wait" THEN "async_wait" ELSE "none"

\* the completion handler of op has been called
completes(p, op) == IF op \in DOMAIN p THEN [p EXCEPT ![op] = @ - 1] ELSE p

\* stream->async_read or mytimer.async_wait is called
starts(p, op) == [p EXCEPT ![op] = @ + 1]

\* a continue_read that reads although check_pause has armed the timer
paused_and_read(p) == starts(starts(p, "async_wait"), "async_read")

\* lines 362-368 and 325: check_pause arms the timer and returns false,
\* continue_read reads nothing
paused(p) == starts(p, "async_wait")

\* lines 326-334: check_pause has returned true, continue_read reads
reading(p) == starts(p, "async_read")

\* receiver_plugin_impl's member initialisers
Constructed ==
  /\ head = 0 /\ head_id = ZeroId
  /\ irreversible = 0 /\ irreversible_id = ZeroId
  /\ block_timestamp = 0
  /\ contract_abi_ctxt = NoCtxt
  /\ contract_abi_imported = {}
  /\ exporter_will_ack = FALSE
  /\ exporter_acked_block = 0
  /\ exporter_max_unconfirmed = 0
  /\ pause_time_msec = 0
  /\ slowdown_requested = FALSE
  /\ aborting = FALSE
  /\ stream_open = TRUE
  /\ pc = "constructed"
  /\ pending = NoPending
  /\ request = None
  /\ result = NoFrame
  /\ ret = "none"
  /\ published = << >>

\* ------------------------------------------------------------ the read loop
\* a check_pause that reports every pause
pause_report_always(pub, pause, hd, acked_block) ==
  Append(pub, [chan |-> "receiver_pauses", priority |-> channel_priority,
               ev |-> [head |-> hd, acknowledged |-> acked_block]])

\* lines 354-360: a pause of PauseReport ms or more is reported
pause_report(pub, pause, hd, acked_block) ==
  IF pause >= PauseReport
    THEN Append(pub, [chan |-> "receiver_pauses", priority |-> channel_priority,
                      ev |-> [head |-> hd, acknowledged |-> acked_block]])
    ELSE pub

\* continue_read with check_pause, after a handler that has published pub
\* and left head at hd
continue_read(pub, hd, queue_size) ==
  IF must_pause(slowdown_requested, exporter_will_ack, hd, exporter_acked_block,
                exporter_max_unconfirmed, queue_size, MaxQueueSize)
    THEN LET p == next_pause_time(pause_time_msec)
         IN /\ slowdown_requested' = FALSE
            /\ pause_time_msec' = p
            /\ published' = pause_report(pub, p, hd, exporter_acked_block)
            /\ pc' = "async_wait"
            /\ pending' = paused(completes(pending, operation(pc)))
    ELSE /\ pause_time_msec' = 0
         /\ slowdown_requested' = slowdown_requested
         /\ published' = pub
         /\ pc' = IF stream_open THEN "async_read" ELSE "failing_read"
         /\ pending' = reading(completes(pending, operation(pc)))

\* close(): catch_and_close and on_fail end the loop
closed(pub) ==
  /\ stream_open' = FALSE
  /\ pc' = "none"
  /\ pending' = completes(pending, operation(pc))
  /\ published' = pub
  /\ UNCHANGED << pause_time_msec, slowdown_requested >>

\* start(): load_state, then the resolve is pending
Start ==
  /\ pc = "constructed"
  /\ LET r == load_state(Mem, exporter_will_ack, exporter_acked_block)
     IN /\ SetMem(r.m)
        /\ exporter_acked_block' = r.acked
        /\ published' = r.m.pub
  /\ pc' = "handshake"
  /\ pending' = pending
  /\ ret' = "start"
  /\ UNCHANGED << exporter_will_ack, exporter_max_unconfirmed, pause_time_msec,
                  slowdown_requested, aborting, subscribers, stream_open,
                  request, result >>

\* resolve, connect and handshake succeeded: start_read
Handshake ==
  /\ pc = "handshake"
  /\ pc' = "read_abi"
  /\ pending' = starts(pending, "async_read")
  /\ ret' = "handshake"
  /\ published' = << >>
  /\ UNCHANGED << mem_vars, ack_vars, pause_time_msec, slowdown_requested, aborting,
                  subscribers, stream_open, request, result >>

\* the callback of start_read: receive_abi, request_blocks, continue_read
ReceiveAbi(abi_ok, queue_size) ==
  /\ pc = "read_abi"
  /\ IF abi_ok
       THEN /\ request' = Some(request_blocks(Mem))
            /\ ret' = "abi"
            /\ continue_read(<< >>, head, queue_size)
            /\ UNCHANGED stream_open
       ELSE /\ ret' = "abi_throw"
            /\ closed(<< >>)
            /\ UNCHANGED request
  /\ UNCHANGED << mem_vars, ack_vars, aborting, subscribers, result >>

\* the completion of the async_write
WriteDone(ok) ==
  /\ IsSome(request)
  /\ request' = None
  /\ IF ok
       THEN UNCHANGED << stream_open, pc >>
       ELSE /\ stream_open' = FALSE
            /\ pc' = IF pc = "async_read" THEN "failing_read" ELSE pc
  /\ ret' = ret
  /\ UNCHANGED << mem_vars, ack_vars, pause_time_msec, slowdown_requested, aborting,
                  subscribers, pending, result, published >>

\* lines 329-334 and catch_and_close: receive_result has ended as r
returned(r, queue_size) ==
  /\ SetMem(r.m)
  /\ ret' = r.ret
  /\ CASE r.ret = "true" ->
            /\ continue_read(r.m.pub, r.m.head, queue_size)
            /\ UNCHANGED stream_open
       [] r.ret = "false" ->
            /\ pc' = "none"
            /\ pending' = completes(pending, operation(pc))
            /\ published' = r.m.pub
            /\ UNCHANGED << stream_open, pause_time_msec, slowdown_requested >>
       [] r.ret = "throw" -> closed(r.m.pub)
       [] r.ret = "hang" ->
            /\ pc' = "hung"
            /\ pending' = completes(pending, operation(pc))
            /\ published' = r.m.pub
            /\ UNCHANGED << stream_open, pause_time_msec, slowdown_requested >>

\* the callback of continue_read's async_read with a frame; the server
\* answers the request, so the write has completed by then
ReceiveResult(f, queue_size) ==
  /\ pc = "async_read"
  /\ ~IsSome(request)
  /\ result' = f
  /\ returned(receive_result(Mem, f, exporter_will_ack, exporter_acked_block,
                             aborting, subscribers),
              queue_size)
  /\ UNCHANGED << ack_vars, aborting, subscribers, request >>

\* the pause timer expires: continue_read
TimerFires(queue_size) ==
  /\ pc = "async_wait"
  /\ ret' = "timer"
  /\ continue_read(<< >>, head, queue_size)
  /\ UNCHANGED << mem_vars, ack_vars, aborting, subscribers, stream_open,
                  request, result >>

\* a pending operation completes with an error code: on_fail
IoFail ==
  /\ pc \in {"handshake", "read_abi", "async_read", "failing_read", "async_wait"}
  /\ ret' = "fail"
  /\ closed(<< >>)
  /\ UNCHANGED << mem_vars, ack_vars, aborting, subscribers, request, result >>

\* ------------------------------------------------------------ the exporter
ExporterWillAck(max_unconfirmed) ==
  /\ pc # "hung"
  /\ ~exporter_will_ack
  /\ max_unconfirmed > 0
  /\ exporter_will_ack' = TRUE
  /\ exporter_max_unconfirmed' = max_unconfirmed
  /\ ret' = ret
  /\ UNCHANGED << mem_vars, exporter_acked_block, pause_time_msec, slowdown_requested,
                  aborting, subscribers, stream_open, pc, pending, request, result, published >>

\* an ack_block that takes any block number
ack_block_unchecked(acked_block, block_num) ==
  [thrown |-> FALSE, acked |-> block_num]

\* lines 942-947: a block below the acknowledged one throws and changes
\* nothing
ack_block(acked_block, block_num) ==
  IF block_num < acked_block
    THEN [thrown |-> TRUE, acked |-> acked_block]
    ELSE [thrown |-> FALSE, acked |-> block_num]

\* ack_block from an exporter that has enabled acknowledgement
AckBlock(block_num) ==
  /\ pc # "hung"
  /\ exporter_will_ack
  /\ exporter_acked_block' = ack_block(exporter_acked_block, block_num).acked
  /\ ret' = ret
  /\ UNCHANGED << mem_vars, exporter_will_ack, exporter_max_unconfirmed,
                  pause_time_msec, slowdown_requested, aborting, subscribers,
                  stream_open, pc, pending, request, result, published >>

Slowdown ==
  /\ pc # "hung"
  /\ slowdown_requested' = TRUE
  /\ ret' = ret
  /\ UNCHANGED << mem_vars, ack_vars, pause_time_msec, aborting, subscribers,
                  stream_open, pc, pending, request, result, published >>

\* a failed assert() in a build that has assertions: abort() ends the
\* process
AssertFailed ==
  /\ stream_open' = FALSE
  /\ pc' = "none"
  /\ pending' = NoPending
  /\ ret' = "assert"
  /\ published' = << >>
  /\ UNCHANGED << mem_vars, ack_vars, pause_time_msec, slowdown_requested, aborting,
                  subscribers, request, result >>

\* exporter_will_ack_blocks called at any time with any value.  Its two
\* preconditions are assert()s: a build with NDEBUG (ndebug) has none
CallExporterWillAck(max_unconfirmed, ndebug) ==
  /\ pc # "hung"
  /\ IF ~ndebug /\ (exporter_will_ack \/ max_unconfirmed = 0)
       THEN AssertFailed
       ELSE /\ exporter_will_ack' = TRUE
            /\ exporter_max_unconfirmed' = max_unconfirmed
            /\ ret' = "will_ack"
            /\ published' = << >>
            /\ UNCHANGED << mem_vars, exporter_acked_block, pause_time_msec,
                            slowdown_requested, aborting, subscribers, stream_open,
                            pc, pending, request, result >>

\* ack_block called at any time with any block number: ret tells whether
\* it has thrown
CallAckBlock(block_num, ndebug) ==
  /\ pc # "hung"
  /\ IF ~ndebug /\ ~exporter_will_ack
       THEN AssertFailed
       ELSE /\ exporter_acked_block' = ack_block(exporter_acked_block, block_num).acked
            /\ ret' = IF ack_block(exporter_acked_block, block_num).thrown
                        THEN "ack_throw" ELSE "ack"
            /\ published' = << >>
            /\ UNCHANGED << mem_vars, exporter_will_ack, exporter_max_unconfirmed,
                            pause_time_msec, slowdown_requested, aborting, subscribers,
                            stream_open, pc, pending, request, result >>

\* abort_receiver: close(), then the flag
AbortReceiver ==
  /\ pc \notin {"constructed", "hung"}
  /\ ~aborting
  /\ stream_open' = FALSE
  /\ aborting' = TRUE
  /\ ret' = ret
  /\ UNCHANGED << mem_vars, ack_vars, pause_time_msec, slowdown_requested,
                  subscribers, pc, pending, request, result, published >>

\* receiver_plugin::get_contract_abi_ctxt, as an exporter calls it for an
\* account: ret tells what get_contract_abi_ready has answered
GetContractAbiCtxt(account) ==
  /\ pc \notin {"constructed", "hung"}
  /\ SetMem(get_contract_abi_ready(Mem, account).m)
  /\ ret' = IF get_contract_abi_ready(Mem, account).ready THEN "ready" ELSE "not_ready"
  /\ published' = << >>
  /\ UNCHANGED << ack_vars, pause_time_msec, slowdown_requested, aborting,
                  subscribers, stream_open, pc, pending, request, result >>

\* the process ends and is started again on the same data directory
Restart ==
  /\ pc \in {"none", "hung"}
  /\ head' = 0 /\ head_id' = ZeroId
  /\ irreversible' = 0 /\ irreversible_id' = ZeroId
  /\ block_timestamp' = 0
  /\ contract_abi_ctxt' = NoCtxt
  /\ contract_abi_imported' = {}
  /\ exporter_will_ack' = FALSE
  /\ exporter_acked_block' = 0
  /\ exporter_max_unconfirmed' = 0
  /\ pause_time_msec' = 0
  /\ slowdown_requested' = FALSE
  /\ aborting' = FALSE
  /\ stream_open' = TRUE
  /\ pc' = "constructed"
  /\ pending' = NoPending
  /\ request' = None
  /\ result' = NoFrame
  /\ ret' = "none"
  /\ published' = << >>
  /\ UNCHANGED << db, subscribers >>

\* ------------------------------------------------------------------ inputs
\* last_irreversible of a frame: block 0 has the zero id
LibPosition(n) == [block_num |-> n, block_id |-> IF n = 0 THEN ZeroId ELSE 1]

\* a get_blocks_result_v0 with a this_block
BlockFrame(b, id, prev, lib, block, deltas, traces) ==
  [ decodes |-> TRUE,
    this_block |-> Some([block_num |-> b, block_id |-> id]),
    prev_block |-> prev,
    last_irreversible |-> LibPosition(lib),
    block |-> block, deltas |-> deltas, traces |-> traces ]

\* a get_blocks_result_v0 without this_block
EmptyFrame(lib) ==
  [ decodes |-> TRUE, this_block |-> None, prev_block |-> None,
    last_irreversible |-> LibPosition(lib),
    block |-> None, deltas |-> None, traces |-> None ]

\* a frame that check_variant or bin_to_native rejects
BadFrame == NoFrame

PrevBlocks(b) ==
  {None} \cup { Some([block_num |-> b - 1, block_id |-> i]) : i \in BlockIds }

SignedBlock(b) == Some([decodes |-> TRUE, timestamp |-> b])

AccountRow(account, abi) ==
  [present |-> TRUE, decodes |-> TRUE, account |-> account, abi |-> abi]

ContractRow(account) == [present |-> TRUE, decodes |-> TRUE, account |-> account]

\* deltas of a block that sets the ABI of an account and writes a row of it
AbiDeltas(account, abi) ==
  Some([decodes |-> TRUE,
        tables |-> << [name |-> "account", decodes |-> TRUE,
                       rows |-> << AccountRow(account, abi) >>],
                      [name |-> "contract_row", decodes |-> TRUE,
                       rows |-> << ContractRow(account) >>] >>])

ActionTrace(account, name) ==
  [decodes |-> TRUE, traces |-> << [account |-> account, name |-> name] >>]

\* a transaction_trace with the action traces actions
TransactionTrace(actions) == [decodes |-> TRUE, traces |-> actions]

\* traces of a block: an onblock, a transfer, a trace without actions, a
\* transfer that is followed by an onblock, an action of a blacklisted
\* account that is not blacklisted itself, and a tweet
BlockTraces ==
  Some([decodes |-> TRUE,
        traces |-> << ActionTrace("eosio", "onblock"),
                      ActionTrace("eosio.token", "transfer"),
                      TransactionTrace(<< >>),
                      TransactionTrace(<< [account |-> "eosio.token", name |-> "transfer"],
                                          [account |-> "eosio", name |-> "onblock"] >>),
                      ActionTrace("eosio", "setcode"),
                      ActionTrace("blocktwitter", "tweet") >>])

\* traces that zlib_decompress or the trace decoder rejects
BrokenTraces == Some([decodes |-> FALSE])

\* the frames of Spec: every position on every branch, every prev_block,
\* every last_irreversible; a frame without this_block; a frame that does
\* not decode.  The blocks of the last branch carry deltas and traces, and
\* each of them comes also with traces that do not decode.
Frames ==
  UNION { { BlockFrame(b, id, prev, lib, SignedBlock(b),
                       IF id = MaxId THEN AbiDeltas(1, 1) ELSE None,
                       IF id = MaxId THEN BlockTraces ELSE None) :
              id \in BlockIds, prev \in PrevBlocks(b), lib \in 0..MaxLib } :
          b \in BlockNums }
  \cup UNION { { BlockFrame(b, MaxId, prev, lib, SignedBlock(b),
                            AbiDeltas(1, 1), BrokenTraces) :
                   prev \in PrevBlocks(b), lib \in 0..MaxLib } :
               b \in BlockNums }
  \cup { EmptyFrame(MaxLib), BadFrame }

\* the frames of SpecPause: the next block of one chain, last_irreversible
\* one block behind
ChainFrames ==
  { BlockFrame(head + 1, 1, Some([block_num |-> head, block_id |-> head_id]),
               head, SignedBlock(head + 1), None, None) }
  \cup { EmptyFrame(head) }

\* deltas with one table
OneTable(name, rows) ==
  Some([decodes |-> TRUE,
        tables |-> << [name |-> name, decodes |-> TRUE, rows |-> rows] >>])

\* an account row of a deleted account
RemovedAccountRow(account, abi) ==
  [present |-> FALSE, decodes |-> TRUE, account |-> account, abi |-> abi]

\* the deltas a block of the clean advance may carry: none; an account row
\* with no ABI, a good or a malformed one; an account row that is not
\* present; two account rows; a contract row; an ABI and a contract row
DeltaChoices ==
  {None}
  \cup { OneTable("account", << AccountRow(a, abi) >>) :
           a \in Accounts, abi \in {EmptyAbi} \cup AbiBytes }
  \cup { OneTable("account", << RemovedAccountRow(a, 1) >>) : a \in Accounts }
  \cup { OneTable("account", << AccountRow(a, 1), AccountRow(a, 2) >>) : a \in Accounts }
  \cup { OneTable("contract_row", << ContractRow(a) >>) : a \in Accounts }
  \cup { AbiDeltas(a, 1) : a \in Accounts }

LastBlock == FirstBlock + ChainLen - 1

\* the block the server of the clean advance sends next
NextBlock == IF head = 0 THEN FirstBlock ELSE head + 1

\* the frames of SpecAdvance: the next block of one chain, last_irreversible
\* LibLag blocks behind it
AdvanceFrames ==
  { BlockFrame(NextBlock, 1,
               Some([block_num |-> NextBlock - 1, block_id |-> 1]),
               NextBlock - LibLag, SignedBlock(NextBlock), d, None) :
      d \in DeltaChoices }

QueueSizes == 0..(MaxQueueSize + 1)

Init ==
  /\ db = EmptyDb
  /\ subscribers = Channels
  /\ Constructed

\* The receiver with an exporter that may acknowledge.  The exporter enables
\* acknowledgement before the receiver is started and acknowledges blocks up
\* to the head it was shown; the reactor queue stays short.
Next ==
  \/ Start
  \/ Handshake
  \/ \E ok \in BOOLEAN : ReceiveAbi(ok, 0)
  \/ \E ok \in BOOLEAN : WriteDone(ok)
  \/ \E f \in Frames : ReceiveResult(f, 0) /\ db'.revision <= MaxRevision
  \/ TimerFires(0)
  \/ IoFail
  \/ (pc = "constructed" /\ ExporterWillAck(1))
  \/ \E n \in BlockNums : n <= head /\ AckBlock(n)
  \/ AbortReceiver
  \/ Restart

Spec == Init /\ [][Next]_vars

\* The read loop under backpressure: one chain without forks, an exporter
\* that acknowledges or not, slowdown() calls and a reactor queue of any
\* length.
NextPause ==
  \/ Start
  \/ Handshake
  \/ \E q \in QueueSizes : ReceiveAbi(TRUE, q)
  \/ WriteDone(TRUE)
  \/ \E f \in ChainFrames, q \in QueueSizes :
       head < MaxBlock /\ ReceiveResult(f, q)
  \/ \E q \in QueueSizes : TimerFires(q)
  \/ \E n \in 1..2 : ExporterWillAck(n)
  \/ \E n \in 0..MaxBlock : AckBlock(n)
  \/ Slowdown

SpecPause == Init /\ [][NextPause]_vars

\* The exporter's calls in any order and with any argument, in builds with
\* and without assertions, while the receiver follows one chain.
NextAck ==
  \/ Start
  \/ Handshake
  \/ ReceiveAbi(TRUE, 0)
  \/ WriteDone(TRUE)
  \/ \E f \in ChainFrames : head < MaxBlock /\ ReceiveResult(f, 0)
  \/ TimerFires(0)
  \/ \E n \in 0..2, ndebug \in BOOLEAN : CallExporterWillAck(n, ndebug)
  \/ \E n \in 0..MaxBlock, ndebug \in BOOLEAN : CallAckBlock(n, ndebug)
  \/ Restart

SpecAck == Init /\ [][NextAck]_vars

\* The clean advance: one chain of ChainLen blocks from FirstBlock on,
\* without acknowledgement; the blocks carry account and contract_row
\* deltas, an exporter asks for ABI contexts, and the connection may fail
\* and the receiver be started again.
NextAdvance ==
  \/ Start
  \/ Handshake
  \/ ReceiveAbi(TRUE, 0)
  \/ WriteDone(TRUE)
  \/ \E f \in AdvanceFrames : NextBlock <= LastBlock /\ ReceiveResult(f, 0)
  \/ \E a \in Accounts : GetContractAbiCtxt(a)
  \/ IoFail
  \/ Restart

SpecAdvance == Init /\ [][NextAdvance]_vars

\* ------------------------------------------------------------- properties
\* the step is receive_result on the frame that result' holds
Received == \E q \in QueueSizes : ReceiveResult(result', q)

\* the step evaluates check_pause with a reactor queue of q entries
Evaluates(q) ==
  \/ ReceiveAbi(TRUE, q)
  \/ (ReceiveResult(result', q) /\ ret' = "true")
  \/ TimerFires(q)

HasBlock(f) == f.decodes /\ IsSome(f.this_block)
BlockNumOf(f) == f.this_block[1].block_num
BlockIdOf(f) == f.this_block[1].block_id
LibOf(f) == f.last_irreversible.block_num

\* the frame is for a block at or below the head hd, above its last_irreversible
OnNewBranch(f, hd) ==
  HasBlock(f) /\ LibOf(f) < BlockNumOf(f) /\ BlockNumOf(f) <= hd

\* the fork event of frame f when the head was hd
NetworkFork(f, hd) ==
  [ chan |-> "forks", priority |-> channel_priority,
    ev |-> [fork_block_num |-> BlockNumOf(f), depth |-> hd - BlockNumOf(f),
            fork_reason |-> "network"] ]

IsNetworkFork(e) == e.chan = "forks" /\ e.ev.fork_reason = "network"

PublishedChannels == { published[i].chan : i \in 1..Len(published) }

\* head and ring after a frame for block b with id: head is the block, the
\* ring has the block once, with this id, and nothing above it
HeadOnBranch(f, d, hd, hid) ==
  /\ hd = BlockNumOf(f) /\ hid = BlockIdOf(f)
  /\ { r \in d.received_block_index : r.block_index = BlockNumOf(f) }
       = { [block_index |-> BlockNumOf(f), block_id |-> BlockIdOf(f)] }
  /\ \A r \in d.received_block_index : r.block_index <= BlockNumOf(f)

\* C1 as stated: after receive_result has processed a frame for a block b
\* with last_irreversible < b <= head_num, head is b with the new id, the
\* ring holds b exactly once, with the new id, and nothing above b.
ForkCorrectnessAnyFrame ==
  [][ (Received /\ ret' = "true" /\ OnNewBranch(result', head))
        => HeadOnBranch(result', db', head', head_id') ]_vars

\* C1, amended: the same, for a frame whose block b is also above the
\* irreversible_num the receiver held before the frame (the block is only
\* inserted into the ring then).
ForkCorrectness ==
  [][ (Received /\ ret' = "true" /\ OnNewBranch(result', head)
         /\ BlockNumOf(result') > irreversible)
        => HeadOnBranch(result', db', head', head_id') ]_vars

\* a fork of depth > 0 was processed and the new block is in the ring
ForkedOntoNewBranch ==
  /\ ret = "true" /\ HasBlock(result)
  /\ Len(published) > 0 /\ IsNetworkFork(published[1])
  /\ published[1].ev.depth > 0
  /\ head = BlockNumOf(result)
  /\ [block_index |-> head, block_id |-> head_id] \in db.received_block_index

CommitCursor(irr) ==
  IF exporter_will_ack /\ exporter_acked_block < irr THEN exporter_acked_block ELSE irr

\* every undo state that an undo can discard is above the last commit
PendingAboveCursor ==
  \A i \in 1..Len(db.stack) : db.stack[i].revision > db.commit_cursor

RingPrunedToNewIrreversible ==
  [][ (Received /\ ret' = "true")
        => \A r \in db'.received_block_index : r.block_index >= irreversible' ]_vars

\* C4, amended: after a processed frame for a block above the irreversible_num
\* held before the frame, no ring entry is below that previous
\* irreversible_num.
RingPrunedToPreviousIrreversible ==
  [][ (Received /\ ret' = "true" /\ HasBlock(result')
         /\ BlockNumOf(result') > irreversible)
        => \A r \in db'.received_block_index : r.block_index >= irreversible ]_vars

\* the last frame removed an entry from the ring: the undo state of its
\* session still has it
RingEntryPruned ==
  /\ ret = "true" /\ HasBlock(result)
  /\ Len(db.stack) > 0
  /\ db.stack[Len(db.stack)].revision = db.revision
  /\ \E r \in db.stack[Len(db.stack)].old.received_block_index :
       /\ r \notin db.received_block_index
       /\ r.block_index < BlockNumOf(result)

\* C5 as stated: in every reachable state irreversible_num <= head_num.
IrreversibleBelowHead == irreversible <= head

\* C5, amended: a processed frame with a this_block leaves head_num at its
\* block_num and irreversible_num at its last_irreversible, so
\* irreversible_num <= head_num holds after it exactly when the frame's
\* last_irreversible is at or below its block_num.
PositionsFollowFrame ==
  [][ (Received /\ ret' = "true" /\ HasBlock(result'))
        => /\ head' = BlockNumOf(result')
           /\ irreversible' = LibOf(result')
           /\ (irreversible' <= head') <=> (LibOf(result') <= BlockNumOf(result')) ]_vars

\* a frame whose last_irreversible is above its block was processed
IrreversibleAheadOfHead ==
  /\ ret = "true" /\ HasBlock(result)
  /\ head = BlockNumOf(result) /\ irreversible = LibOf(result)
  /\ irreversible > head

\* the frame is for the block after the head and does not name the head as
\* its previous block
BrokenContinuation(f, hd, hid) ==
  /\ hd > 0 /\ HasBlock(f) /\ BlockNumOf(f) = hd + 1
  /\ (~IsSome(f.prev_block) \/ f.prev_block[1].block_id # hid)

\* the frame is rejected and the read loop is closed, head unchanged
RejectedAndClosed ==
  /\ ret' = "throw" /\ pc' = "none" /\ ~stream_open'
  /\ head' = head /\ head_id' = head_id

\* C6 as stated: with head_num > 0, every frame for block head_num + 1 whose
\* prev_block is absent or differs from head_id is rejected with an error and
\* the read loop closes.
PrevHashCheckEveryFrame ==
  [][ (Received /\ BrokenContinuation(result', head, head_id))
        => RejectedAndClosed ]_vars

\* C6, amended: the same, for every such frame whose block is above the
\* frame's last_irreversible (the check is made at the chain head only).
PrevHashCheck ==
  [][ (Received /\ BrokenContinuation(result', head, head_id)
         /\ BlockNumOf(result') > LibOf(result'))
        => RejectedAndClosed ]_vars

\* a frame for the next block was rejected for its prev_block: the store
\* revision was high enough for set_revision not to be called
ContinuationRejected ==
  /\ ret = "throw" /\ pc = "none" /\ ~stream_open
  /\ BrokenContinuation(result, head, head_id)
  /\ BlockNumOf(result) > LibOf(result)
  /\ db.revision > head

\* C7: after a frame for block b is processed successfully (its scope is
\* pushed) the store revision equals b.
RevisionIsBlockNum ==
  [][ (Received /\ ret' = "true" /\ HasBlock(result'))
        => db'.revision = BlockNumOf(result') ]_vars

\* C8: each pausing evaluation sets pause_time_msec to 100 if it was 0 and to
\* min(pause_time_msec * 2, 8000) otherwise, so it never exceeds 8000.
PauseSequence ==
  [][ \A q \in QueueSizes :
        (Evaluates(q) /\ pc' = "async_wait")
          => /\ pause_time_msec' =
                  IF pause_time_msec = 0 THEN PauseStart
                  ELSE IF pause_time_msec * 2 < PauseLimit
                    THEN pause_time_msec * 2 ELSE PauseLimit
             /\ pause_time_msec' <= PauseLimit ]_vars

\* C9: an evaluation pauses exactly when slowdown was requested, or
\* acknowledgement is enabled and head - acked_block >= max_unconfirmed, or
\* the reactor queue is longer than max_queue; when it does not pause it
\* resets pause_time_msec to 0 and issues the read.
PauseExactlyWhenDue ==
  [][ \A q \in QueueSizes :
        Evaluates(q)
          => /\ (pc' = "async_wait")
                  <=> \/ slowdown_requested
                      \/ (exporter_will_ack
                          /\ head' - exporter_acked_block >= exporter_max_unconfirmed)
                      \/ q > MaxQueueSize
             /\ pc' # "async_wait"
                  => (pause_time_msec' = 0 /\ pc' \in {"async_read", "failing_read"}) ]_vars

\* C10: a frame for a block at or below both the head and an irreversible_num
\* that has been committed is not accepted: receive_result ends with an
\* error, the read loop closes and head_num stays.
RollbackUnderflowRejected ==
  [][ (Received /\ HasBlock(result')
         /\ BlockNumOf(result') <= irreversible /\ irreversible <= head
         /\ db.commit_cursor = irreversible /\ irreversible > 0)
        => (ret' = "throw" /\ pc' = "none" /\ head' = head) ]_vars

\* C11: every fork frame for a block b above the irreversible_num the
\* receiver holds and at or below its head is rolled back without a hard
\* error: receive_result returns, the store revision is the one of the new
\* block's scope, head is b and the ring has the new block b.
ForkAfterIrreversible ==
  [][ (Received /\ ~aborting /\ OnNewBranch(result', head)
         /\ irreversible < BlockNumOf(result'))
        => /\ ret' = "true"
           /\ HeadOnBranch(result', db', head', head_id') ]_vars

\* C12: with acknowledgement enabled and acked_block below the frame's
\* last_irreversible, a processed frame commits at acked_block: the commit
\* cursor is acked_block, and every undo state above acked_block that the
\* frame has not rolled back is still pending.  ack_block alone commits
\* nothing; the frame after it commits at the new acked_block.
AckGatedCommit ==
  [][ /\ (Received /\ ret' = "true" /\ HasBlock(result') /\ exporter_will_ack
            /\ exporter_acked_block < LibOf(result'))
          => /\ db'.commit_cursor = exporter_acked_block
             /\ \A i \in 1..Len(db.stack) :
                  (/\ db.stack[i].revision > exporter_acked_block
                   /\ db.stack[i].revision < BlockNumOf(result'))
                    => \E j \in 1..Len(db'.stack) : db'.stack[j] = db.stack[i]
             /\ \A j \in 1..Len(db'.stack) :
                  db'.stack[j].revision > exporter_acked_block
      /\ (\E n \in 0..MaxBlock : AckBlock(n)) => db' = db ]_vars

\* a frame was committed at an acknowledged block below irreversible_num,
\* and an undo state at or below irreversible_num is still pending
CommittedAtAck ==
  /\ ret = "true" /\ HasBlock(result) /\ exporter_will_ack
  /\ exporter_acked_block > 0
  /\ exporter_acked_block < irreversible
  /\ db.commit_cursor = exporter_acked_block
  /\ \E i \in 1..Len(db.stack) : db.stack[i].revision <= irreversible

\* the restart fork event of a recovery that ends at head hd after k undos
RestartFork(hd, k) ==
  [ chan |-> "forks", priority |-> channel_priority,
    ev |-> [fork_block_num |-> hd, depth |-> k, fork_reason |-> "restart"] ]

\* the head a store's state_index holds, 0 when it has no state_object
StoredHead(state_index) == IF Len(state_index) > 0 THEN state_index[1].head ELSE 0
StoredIrreversible(state_index) ==
  IF Len(state_index) > 0 THEN state_index[1].irreversible ELSE 0

\* the block whose frame opened the oldest pending scope of store d
OldestPendingBlock(d) ==
  IF Len(d.stack) > 1
    THEN StoredHead(d.stack[2].old.state_index)
    ELSE StoredHead(d.state_index)

\* C13: start() with k > 0 pending scopes undoes them all before anything is
\* connected; the store is the committed baseline, head and irreversible are
\* the ones the baseline holds, which on a chain of consecutive blocks is
\* the block before the oldest pending scope's block; exactly one fork event
\* {head after the undo, k, restart} is published.  With no pending scope
\* the store is left alone and no fork event is published.
StartupRecovery ==
  [][ Start =>
        /\ pc' = "handshake"
        /\ Len(db'.stack) = 0
        /\ Len(db.stack) > 0
             => /\ db_tables(db') = db.stack[1].old
                /\ head' = StoredHead(db.stack[1].old.state_index)
                /\ irreversible' = StoredIrreversible(db.stack[1].old.state_index)
                /\ head' > 0 => head' = OldestPendingBlock(db) - 1
                /\ published' = << RestartFork(head', Len(db.stack)) >>
        /\ Len(db.stack) = 0
             => /\ db' = db
                /\ published' = << >> ]_vars

\* the receiver was started on a store with several pending scopes above a
\* committed baseline
RecoveredToBaseline ==
  /\ ret = "start" /\ pc = "handshake"
  /\ head >= FirstBlock
  /\ Len(published) = 1
  /\ published[1].chan = "forks" /\ published[1].ev.fork_reason = "restart"
  /\ published[1].ev.depth >= 2

\* the step processes the last block of the clean advance
LastBlockProcessed ==
  /\ Received /\ ret' = "true" /\ HasBlock(result')
  /\ BlockNumOf(result') = LastBlock

\* C14: without acknowledgement, after the consecutive blocks FirstBlock ..
\* LastBlock with last_irreversible LibLag behind, head_num is LastBlock,
\* irreversible_num is LastBlock - LibLag and the undo stack has
\* head_num - irreversible_num scopes.
CleanAdvanceDepth ==
  [][ (LastBlockProcessed /\ ~exporter_will_ack)
        => /\ head' = LastBlock
           /\ irreversible' = LastBlock - LibLag
           /\ Len(db'.stack) = head' - irreversible' ]_vars

\* the ring entries of the chain's blocks from..LastBlock
ChainEntries(from) ==
  { [block_index |-> b, block_id |-> 1] : b \in { x \in FirstBlock..LastBlock : x >= from } }

\* C15 as stated: after the consecutive blocks FirstBlock..LastBlock with
\* last_irreversible LibLag behind, the ring holds exactly the blocks above
\* the irreversible_num the receiver has then (102 and 103).
CleanAdvanceRingAboveIrreversible ==
  [][ LastBlockProcessed
        => db'.received_block_index = ChainEntries(irreversible' + 1) ]_vars

\* C15, amended: the ring holds exactly the chain's blocks from the
\* irreversible_num the receiver held before the last frame on (100..103):
\* a frame prunes what is below the irreversible_num of the frame before it.
CleanAdvanceRing ==
  [][ LastBlockProcessed
        => /\ irreversible = LastBlock - 1 - LibLag
           /\ db'.received_block_index = ChainEntries(irreversible) ]_vars

\* the clean advance has ended and the ring still has a block at or below
\* irreversible_num
RingKeepsIrreversible ==
  /\ ret = "true" /\ HasBlock(result) /\ BlockNumOf(result) = LastBlock
  /\ head = LastBlock
  /\ \E r \in db.received_block_index : r.block_index <= irreversible

\* the rows of the tables called name in the deltas of frame f, in order
RECURSIVE RowsFrom(_, _, _)
RowsFrom(tables, name, i) ==
  IF i > Len(tables)
    THEN << >>
    ELSE (IF tables[i].name = name THEN tables[i].rows ELSE << >>)
           \o RowsFrom(tables, name, i + 1)

RowsOf(f, name) ==
  IF IsSome(f.deltas) THEN RowsFrom(f.deltas[1].tables, name, 1) ELSE << >>

\* the events of a channel among the publications pub, in order
EventsOn(pub, chan) == SelectSeq(pub, LAMBDA e : e.chan = chan)

\* the account rows of f that are present and carry a non-empty ABI
AbiRows(f) ==
  SelectSeq(RowsOf(f, "account"), LAMBDA r : r.present /\ r.abi # EmptyAbi)

\* of these, the ones whose ABI the decoder accepts
GoodAbiRows(f) == SelectSeq(AbiRows(f), LAMBDA r : AbiParses(r.abi))

\* the abi_updates events pub are one per row of rows, in order, with the
\* row's account and bytes and the block number hd
UpdatesMatchRows(pub, rows, hd) ==
  /\ Len(EventsOn(pub, "abi_updates")) = Len(rows)
  /\ \A i \in 1..Len(rows) :
       /\ EventsOn(pub, "abi_updates")[i].ev.account = rows[i].account
       /\ EventsOn(pub, "abi_updates")[i].ev.abi_bytes = rows[i].abi
       /\ EventsOn(pub, "abi_updates")[i].ev.block_num = hd

\* C16 as stated: a processed frame publishes exactly one abi_update event
\* for every account row that is present and has a non-empty abi, with the
\* row's account and abi bytes and block_num = head.
AbiUpdatePerRow ==
  [][ (Received /\ ret' = "true" /\ HasBlock(result'))
        => UpdatesMatchRows(published', AbiRows(result'), head') ]_vars

\* C16, amended: exactly one abi_update event for every such row whose abi
\* the decoder accepts; a row whose abi it rejects yields one abi_error
\* event for the account and no abi_update.
AbiUpdatePerGoodRow ==
  [][ (Received /\ ret' = "true" /\ HasBlock(result'))
        => /\ UpdatesMatchRows(published', GoodAbiRows(result'), head')
           /\ RowsOf(result', "contract_row") = << >>
                => Len(EventsOn(published', "abi_errors"))
                     = Len(AbiRows(result')) - Len(GoodAbiRows(result')) ]_vars

\* a frame with two ABIs for an account was processed: two abi_update events
TwoAbiUpdates ==
  /\ ret = "true" /\ HasBlock(result)
  /\ Len(AbiRows(result)) = 2
  /\ Len(EventsOn(published, "abi_updates")) = 2

\* the account rows of frame f are one present row of account a without ABI
ClearsAbi(f, a) ==
  /\ HasBlock(f)
  /\ RowsOf(f, "account") = << AccountRow(a, EmptyAbi) >>

HasRecord(d, a) == abi_rows(d, a) # {}

\* the store shows that account a had an ABI Record at some earlier block
SeenEarlier(d, a) ==
  \/ HasRecord(d, a)
  \/ \E i \in 1..Len(d.stack) : \E r \in d.stack[i].old.contract_abi_index : r.account = a

\* one abi_removal event, for account a at block hd
OneRemoval(pub, a, hd) ==
  /\ Len(EventsOn(pub, "abi_removals")) = 1
  /\ EventsOn(pub, "abi_removals")[1].ev.account = a
  /\ EventsOn(pub, "abi_removals")[1].ev.block_num = hd

\* C17 as stated: an account row with present = true and an empty abi, for
\* an account that had an ABI update earlier, causes exactly one
\* abi_removal event and the account has no ABI Record afterwards.
AbiRemovalForSeenAccount ==
  [][ \A a \in Accounts :
        (Received /\ ret' = "true" /\ ClearsAbi(result', a) /\ SeenEarlier(db, a))
          => /\ OneRemoval(published', a, head')
             /\ ~HasRecord(db', a) ]_vars

\* C17, amended: such a row causes exactly one abi_removal event when the
\* account has an ABI Record, and none when it has not (its ABI was removed
\* already); the account has no ABI Record afterwards.
AbiRemovalForRecord ==
  [][ \A a \in Accounts :
        (Received /\ ret' = "true" /\ ClearsAbi(result', a))
          => /\ HasRecord(db, a) => OneRemoval(published', a, head')
             /\ ~HasRecord(db, a) => EventsOn(published', "abi_removals") = << >>
             /\ ~HasRecord(db', a) ]_vars

\* the last frame has removed the ABI Record of an account
AbiRecordRemoved ==
  \E a \in Accounts :
    /\ ret = "true" /\ ClearsAbi(result, a)
    /\ Len(EventsOn(published, "abi_removals")) = 1
    /\ ~HasRecord(db, a)
    /\ Len(db.stack) > 0
    /\ \E r \in db.stack[Len(db.stack)].old.contract_abi_index : r.account = a

\* the account rows of frame f all set an ABI, the last of them a good one
\* for account a
UpdatesAbi(f, a) ==
  /\ HasBlock(f)
  /\ AbiRows(f) # << >>
  /\ RowsOf(f, "account") = AbiRows(f)
  /\ AbiRows(f)[Len(AbiRows(f))].account = a
  /\ AbiParses(AbiRows(f)[Len(AbiRows(f))].abi)

\* C18: after a processed update for account a the account is loaded, and
\* get_contract_abi_ready(a) for a loaded account answers true whatever the
\* Record store holds and changes neither the store nor the context nor
\* the loaded set; for an account that is neither loaded nor has a Record
\* it answers false and changes nothing.
EnsureLoaded ==
  [][ \A a \in Accounts :
        /\ (Received /\ ret' = "true" /\ UpdatesAbi(result', a))
             => a \in contract_abi_imported'
        /\ (GetContractAbiCtxt(a) /\ a \in contract_abi_imported)
             => /\ ret' = "ready"
                /\ UNCHANGED mem_vars
                /\ get_contract_abi_ready([Mem EXCEPT !.db.contract_abi_index = {}], a)
                     = [ready |-> TRUE,
                        m |-> [Mem EXCEPT !.db.contract_abi_index = {}]]
        /\ (GetContractAbiCtxt(a) /\ a \notin contract_abi_imported /\ ~HasRecord(db, a))
             => /\ ret' = "not_ready"
                /\ UNCHANGED mem_vars ]_vars

\* get_contract_abi_ready has answered true for the account whose ABI the
\* last frame has set
ReadyAfterUpdate ==
  \E a \in Accounts :
    /\ ret = "ready"
    /\ UpdatesAbi(result, a)
    /\ a \in contract_abi_imported
    /\ HasRecord(db, a)

\* frame f carries one contract_row, of account a, after its account rows
WritesRow(f, a) ==
  /\ HasBlock(f)
  /\ RowsOf(f, "contract_row") = << ContractRow(a) >>

\* account a has an ABI when the contract_row of the frame is handled: it
\* was loaded or recorded before a frame without account rows, it is
\* recorded after a frame with account rows
HasAbiAtRow(f, a, imported, before, after) ==
  IF RowsOf(f, "account") = << >>
    THEN a \in imported \/ HasRecord(before, a)
    ELSE HasRecord(after, a)

\* C19: with subscribers, a processed frame publishes for its contract_row
\* exactly one of table_row_update and abi_error: the table_row_update (and
\* no abi_error) when the account has an ABI Record or is loaded, the
\* abi_error for the account (and no table_row_update) when it has not, as
\* after a frame that has cleared its ABI.
RowUpdateOrAbiError ==
  [][ \A a \in Accounts :
        (Received /\ ret' = "true" /\ WritesRow(result', a))
          => IF HasAbiAtRow(result', a, contract_abi_imported, db, db')
               THEN /\ Len(EventsOn(published', "table_row_updates")) = 1
                    /\ EventsOn(published', "table_row_updates")[1].ev.code = a
                    /\ EventsOn(published', "table_row_updates")[1].ev.block_num = head'
                    /\ EventsOn(published', "abi_errors") = << >>
               ELSE /\ Len(EventsOn(published', "abi_errors")) = 1
                    /\ EventsOn(published', "abi_errors")[1].ev.account = a
                    /\ EventsOn(published', "abi_errors")[1].ev.block_num = head'
                    /\ EventsOn(published', "table_row_updates") = << >> ]_vars

\* a contract_row of an account whose ABI Record an earlier frame has
\* removed was answered with an abi_error
RowAfterAbiCleared ==
  \E a \in Accounts :
    /\ ret = "true" /\ WritesRow(result, a)
    /\ RowsOf(result, "account") = << >>
    /\ ~HasRecord(db, a)
    /\ SeenEarlier(db, a)
    /\ Len(EventsOn(published, "abi_errors")) = 1
    /\ EventsOn(published, "table_row_updates") = << >>

\* the accounts that have an ABI Record
RecordedAccounts(d) == { r.account : r \in d.contract_abi_index }

\* C20: in every reachable state the loaded set is a subset of the accounts
\* that have an ABI Record in the store.
LoadedSubsetOfRecords == contract_abi_imported \subseteq RecordedAccounts(db)

\* the schema the context holds for account a is the one of a's ABI Record
SchemaIsRecord(ctxt, d, a) ==
  \E r \in abi_rows(d, a) : [account |-> a, abi |-> r.abi] \in ctxt.contracts

\* C21: in every reachable state, for every account in the loaded set the
\* schema installed in the Decode Context is the account's current ABI
\* Record.
ContextNeverStale ==
  \A a \in contract_abi_imported : SchemaIsRecord(contract_abi_ctxt, db, a)

\* the account rows of frame f are one row of account a whose ABI the
\* decoder rejects
RejectsAbi(f, a) ==
  /\ HasBlock(f)
  /\ Len(RowsOf(f, "account")) = 1
  /\ AbiRows(f) = RowsOf(f, "account")
  /\ AbiRows(f)[1].account = a
  /\ ~AbiParses(AbiRows(f)[1].abi)

\* the scope of the frame that made head hd was pushed on store d
ScopePushed(d, hd) ==
  /\ Len(d.stack) > 0
  /\ d.stack[Len(d.stack)].revision = d.revision
  /\ StoredHead(d.state_index) = hd

\* C22: a frame whose update of an account's ABI fails publishes one
\* abi_error for the account and no abi_update, leaves the ABI Records as
\* they were, is processed to its end (the delta event follows, the frame
\* returns true) and its scope is pushed.
AbiErrorNotFatal ==
  [][ \A a \in Accounts :
        (Received /\ RejectsAbi(result', a))
          => /\ ret' = "true"
             /\ Len(EventsOn(published', "abi_errors")) = 1
             /\ EventsOn(published', "abi_errors")[1].ev.account = a
             /\ EventsOn(published', "abi_updates") = << >>
             /\ db'.contract_abi_index = db.contract_abi_index
             /\ published'[Len(published')].chan = "block_table_deltas"
             /\ head' = BlockNumOf(result')
             /\ ScopePushed(db', head') ]_vars

\* an update with a malformed ABI was refused for an account that has an
\* ABI Record, and the frame's scope is the last of the undo stack
BadAbiRefused ==
  \E a \in Accounts :
    /\ ret = "true" /\ RejectsAbi(result, a)
    /\ HasRecord(db, a)
    /\ Len(EventsOn(published, "abi_errors")) = 1
    /\ ScopePushed(db, head)

\* the first action of trace tr is on the blacklist
FirstActionBlacklisted(tr) ==
  /\ Len(tr.traces) > 0
  /\ \E b \in blacklist_actions :
       b.account = tr.traces[1].account /\ b.name = tr.traces[1].name

\* the traces of frame f that are to be published, in server order
TracesToPublish(f) ==
  IF IsSome(f.traces)
    THEN SelectSeq(f.traces[1].traces, LAMBDA tr : ~FirstActionBlacklisted(tr))
    ELSE << >>

\* C23: a frame that is decoded to its end publishes on transaction_traces
\* exactly the traces whose first action is not blacklisted, the ones
\* without actions included, once each and in server order, with
\* block_num = head; a trace whose first action is blacklisted is not
\* published.
BlacklistFilter ==
  [][ (Received /\ ret' \in {"true", "false"} /\ HasBlock(result'))
        => /\ Len(EventsOn(published', "transaction_traces"))
                = Len(TracesToPublish(result'))
           /\ \A i \in 1..Len(TracesToPublish(result')) :
                /\ EventsOn(published', "transaction_traces")[i].ev.trace
                     = TracesToPublish(result')[i]
                /\ EventsOn(published', "transaction_traces")[i].ev.block_num = head'
           /\ \A i \in 1..Len(published') :
                published'[i].chan = "transaction_traces"
                  => ~FirstActionBlacklisted(published'[i].ev.trace) ]_vars

\* a frame with blacklisted and other traces was processed: fewer events
\* than traces, among them a trace without actions and one whose second
\* action is blacklisted
BlacklistedDropped ==
  /\ ret = "true" /\ HasBlock(result) /\ IsSome(result.traces)
  /\ Len(EventsOn(published, "transaction_traces")) > 0
  /\ Len(EventsOn(published, "transaction_traces")) < Len(result.traces[1].traces)
  /\ \E i \in 1..Len(published) :
       /\ published[i].chan = "transaction_traces"
       /\ published[i].ev.trace.traces = << >>
  /\ \E i \in 1..Len(published) :
       /\ published[i].chan = "transaction_traces"
       /\ Len(published[i].ev.trace.traces) = 2

\* the place of a channel in the order of a frame's events: the fork event,
\* the block, the deltas with the ABI and row events they cause, the traces
EventRank(chan) ==
  CASE chan = "forks" -> 0
    [] chan = "blocks" -> 1
    [] chan = "transaction_traces" -> 3
    [] OTHER -> 2

\* the tables of frame f, in server order
TablesOf(f) == IF IsSome(f.deltas) THEN f.deltas[1].tables ELSE << >>

\* C24: the events of a frame that is decoded to its end are published in
\* the order block, table deltas, transaction traces: one block event for
\* the frame's block, ahead of every delta and trace event and behind
\* nothing but a fork event; one block_table_delta event per table in
\* server order, all ahead of the trace events; the trace events in server
\* order; and the block and trace events all carry the frame's block
\* number, none the number of another frame.
EventOrdering ==
  [][ (Received /\ ret' \in {"true", "false"} /\ HasBlock(result'))
        => /\ \A i, j \in 1..Len(published') :
                i < j => EventRank(published'[i].chan) <= EventRank(published'[j].chan)
           /\ Len(EventsOn(published', "blocks")) = Len(result'.block)
           /\ Len(EventsOn(published', "block_table_deltas")) = Len(TablesOf(result'))
           /\ \A i \in 1..Len(TablesOf(result')) :
                /\ EventsOn(published', "block_table_deltas")[i].ev.name
                     = TablesOf(result')[i].name
                /\ EventsOn(published', "block_table_deltas")[i].ev.rows
                     = TablesOf(result')[i].rows
           /\ \A i \in 1..Len(TracesToPublish(result')) :
                EventsOn(published', "transaction_traces")[i].ev.trace
                  = TracesToPublish(result')[i]
           /\ \A i \in 1..Len(published') :
                published'[i].chan \in {"blocks", "transaction_traces"}
                  => published'[i].ev.block_num = BlockNumOf(result') ]_vars

\* a frame that is no fork was processed with its block, two tables and
\* traces: the block event is the first publication, the last ones are
\* trace events
BlockDeltasTracesInOrder ==
  /\ ret = "true" /\ HasBlock(result)
  /\ Len(published) > 3
  /\ published[1].chan = "blocks"
  /\ Len(EventsOn(published, "block_table_deltas")) = 2
  /\ published[Len(published)].chan = "transaction_traces"

\* the step is an ack_block(n) call that runs (no assertion ends it)
AckCalled(n) == \E ndebug \in BOOLEAN : CallAckBlock(n, ndebug) /\ ret' # "assert"

\* C25: ack_block(n) with n below acked_block throws and leaves acked_block
\* unchanged, with n >= acked_block it sets acked_block to n: acked_block
\* never decreases by an ack_block call.
AckMonotonic ==
  [][ \A n \in 0..MaxBlock :
        AckCalled(n)
          => /\ n < exporter_acked_block
                  => (ret' = "ack_throw" /\ exporter_acked_block' = exporter_acked_block)
             /\ n >= exporter_acked_block
                  => (ret' = "ack" /\ exporter_acked_block' = n)
             /\ exporter_acked_block' >= exporter_acked_block ]_vars

\* an ack_block below the acknowledged block has thrown
AckBelowRefused ==
  /\ ret = "ack_throw"
  /\ exporter_will_ack
  /\ exporter_acked_block > 0

\* the step is a call the exporter must not make: exporter_will_ack_blocks
\* a second time or with 0, ack_block before acknowledgement is enabled
AckMisuse ==
  \/ \E n \in 0..2, ndebug \in BOOLEAN :
       CallExporterWillAck(n, ndebug) /\ (exporter_will_ack \/ n = 0)
  \/ \E n \in 0..MaxBlock, ndebug \in BOOLEAN :
       CallAckBlock(n, ndebug) /\ ~exporter_will_ack

\* C26: enabling acknowledgement twice, enabling it with max_unconfirmed = 0
\* and ack_block while acknowledgement is not enabled are refused with an
\* error, and ack_enabled, max_unconfirmed and acked_block stay as they
\* were.
AckMisuseRefused ==
  [][ AckMisuse
        => /\ ret' \in {"assert", "ack_throw"}
           /\ UNCHANGED << exporter_will_ack, exporter_max_unconfirmed,
                           exporter_acked_block >> ]_vars

\* the step handles a frame with a block while aborting is set, to the
\* early return of line 498
AbortedFrame == Received /\ aborting /\ HasBlock(result') /\ ret' = "false"

\* what the handling of frame f publishes when aborting is not set
PublishedUnaborted(f) ==
  receive_result(Mem, f, exporter_will_ack, exporter_acked_block, FALSE, subscribers).m.pub

\* C27 as stated: a frame handled while aborting is set publishes its
\* events, leaves store revision, persisted Receiver State, ring and ABI
\* Records as before the frame, commits nothing and no further read is
\* issued.
AbortLeavesStore ==
  [][ AbortedFrame
        => /\ published' = PublishedUnaborted(result')
           /\ db'.revision = db.revision
           /\ db'.state_index = db.state_index
           /\ db'.received_block_index = db.received_block_index
           /\ db'.contract_abi_index = db.contract_abi_index
           /\ db'.commit_cursor = db.commit_cursor
           /\ pc' = "none" ]_vars

\* C27, amended: a frame handled while aborting is set publishes its events,
\* pushes no scope and commits nothing, and no further read is issued.  The
\* store is left as it was when the frame's scope was opened: as before the
\* frame but for the revision a frame above it has set, and on a fork frame
\* as the rollback has left it, below the fork block.  The tables a startup
\* recovery restores are the same as before the frame.
AbortSkipsPush ==
  [][ AbortedFrame
        => /\ published' = PublishedUnaborted(result')
           /\ pc' = "none"
           /\ db'.commit_cursor = db.commit_cursor
           /\ Len(db'.stack) <= Len(db.stack)
           /\ db'.stack = SubSeq(db.stack, 1, Len(db'.stack))
           /\ ~OnNewBranch(result', head)
                => db' = [db EXCEPT !.revision =
                            IF @ < BlockNumOf(result') THEN BlockNumOf(result') ELSE @]
           /\ OnNewBranch(result', head)
                => /\ db'.revision < BlockNumOf(result')
                   /\ Len(db'.stack) < Len(db.stack)
                   /\ db_tables(db') = db.stack[Len(db'.stack) + 1].old
           /\ db_tables(db_undo_all(db')) = db_tables(db_undo_all(db)) ]_vars

\* a frame was handled while aborting was set, above scopes that are still
\* pending: its events are published, its head is not persisted
AbortedAbovePendingScopes ==
  /\ aborting /\ ret = "false" /\ pc = "none"
  /\ HasBlock(result)
  /\ Len(published) > 0
  /\ Len(db.stack) > 0
  /\ head = BlockNumOf(result)
  /\ StoredHead(db.state_index) # head

\* the frame is for a block at or below the head, on a store whose pending
\* scopes do not reach down to the block: the rollback would go beneath the
\* undo stack
RollbackUnderflow(f, d, hd) ==
  /\ OnNewBranch(f, hd)
  /\ d.revision >= BlockNumOf(f)
  /\ d.revision - Len(d.stack) >= BlockNumOf(f)

\* the step is a callback of the read loop that meets an error: an error
\* code, a handshake ABI or a frame that does not decode, a frame that
\* breaks the sequence
FatalError ==
  \/ IoFail
  \/ \E q \in QueueSizes : ReceiveAbi(FALSE, q)
  \/ Received /\ ret' = "throw"
  \/ Received /\ HasBlock(result') /\ RollbackUnderflow(result', db, head)

\* the step leaves the receiver stopped: no callback pending, socket
\* closed, store and positions untouched
StaysStopped ==
  /\ pc' = "none" /\ ~stream_open'
  /\ db' = db /\ head' = head /\ irreversible' = irreversible
  /\ published' = published

\* C28: after an I/O error, a decode error or a protocol sequence error in a
\* callback of the read loop the socket is closed and nothing is pending;
\* from then on no read and no timer is scheduled, no frame is applied and
\* nothing but a new start of the process connects again.
FatalErrorStopsLoop ==
  [][ /\ FatalError => (pc' = "none" /\ ~stream_open')
      /\ (pc = "none" /\ ~Restart) => StaysStopped ]_vars

\* C29: at most one continuation of the read loop is pending at any time,
\* one socket read or one pause timer, never two reads and never a read
\* with a timer, and it is the one the loop waits for.
ReadSerialized ==
  /\ pending.async_read + pending.async_wait <= 1
  /\ pending.async_read = 1 <=> pc \in {"read_abi", "async_read", "failing_read"}
  /\ pending.async_wait = 1 <=> pc = "async_wait"

\* the pause timer is pending and no read with it
TimerAloneIsPending ==
  /\ pc = "async_wait"
  /\ pending = [async_read |-> 0, async_wait |-> 1]
  /\ head > 0

\* the frame decodes and has no this_block
WithoutBlock(f) == f.decodes /\ ~IsSome(f.this_block)

\* C30: a frame without this_block is ignored: store, Receiver State, ABI
\* Records and Decode Context stay as they are, receive_result publishes
\* nothing and returns true, and the read loop goes on: it reads the next
\* frame with the pause state unchanged, unless check_pause finds a pause
\* due and arms the timer first.
FrameWithoutBlockIgnored ==
  [][ (Received /\ WithoutBlock(result'))
        => /\ ret' = "true"
           /\ UNCHANGED mem_vars
           /\ published' = << >>
           /\ pc' \in {"async_read", "failing_read", "async_wait"}
           /\ pc' # "async_wait"
                => UNCHANGED << pause_time_msec, slowdown_requested >> ]_vars

\* a frame without this_block, with a last_irreversible above the one the
\* receiver holds, has been ignored above pending scopes and the next read
\* is pending
IgnoredFrameAbovePendingScopes ==
  /\ ret = "true" /\ WithoutBlock(result)
  /\ pc = "async_read"
  /\ head > 0 /\ Len(db.stack) > 0
  /\ LibOf(result) > irreversible

\* the channels receive_deltas publishes on
DeltaChannels ==
  {"abi_updates", "abi_removals", "abi_errors", "table_row_updates",
   "block_table_deltas"}

\* the events receive_deltas has published among pub, in order
DeltaEvents(pub) == SelectSeq(pub, LAMBDA e : e.chan \in DeltaChannels)

\* the table the i-th delta event belongs to: one more than the number of
\* block_table_delta events ahead of it
TableOfEvent(events, i) ==
  1 + Cardinality({ j \in 1..(i - 1) : events[j].chan = "block_table_deltas" })

\* the channels the rows of a table of this name publish on
RowChannels(name) ==
  IF name = "account"
    THEN {"abi_updates", "abi_removals", "abi_errors"}
    ELSE IF name = "contract_row" THEN {"table_row_updates", "abi_errors"} ELSE {}

\* the account an ABI or row event is about
EventAccount(e) == IF e.chan = "table_row_updates" THEN e.ev.code ELSE e.ev.account

\* the i-th of the delta events is an event of table k of tables: the
\* table's block_table_delta event, or an event a row of the table causes
EventOfTable(e, table) ==
  IF e.chan = "block_table_deltas"
    THEN e.ev.name = table.name /\ e.ev.rows = table.rows
    ELSE /\ e.chan \in RowChannels(table.name)
         /\ \E r \in 1..Len(table.rows) : table.rows[r].account = EventAccount(e)

\* C31: a processed frame publishes exactly one block_table_delta event per
\* table delta, after every ABI update, removal, error and row event the
\* rows of that delta cause and before any event of the next delta: each
\* delta event lies in the stretch of its own table, and the last of them
\* is a block_table_delta event.
DeltaEventClosesItsRows ==
  [][ (Received /\ ret' = "true" /\ HasBlock(result'))
        => /\ Len(EventsOn(published', "block_table_deltas")) = Len(TablesOf(result'))
           /\ \A i \in 1..Len(DeltaEvents(published')) :
                /\ TableOfEvent(DeltaEvents(published'), i) <= Len(TablesOf(result'))
                /\ EventOfTable(DeltaEvents(published')[i],
                                TablesOf(result')[TableOfEvent(DeltaEvents(published'), i)])
           /\ Len(DeltaEvents(published')) > 0
                => DeltaEvents(published')[Len(DeltaEvents(published'))].chan
                     = "block_table_deltas" ]_vars

\* a frame with an account delta and a contract_row delta was processed: the
\* abi_update comes before the account delta's event, the row event after
\* it and before the contract_row delta's event
AbiAndRowEventsInterleaved ==
  /\ ret = "true" /\ HasBlock(result)
  /\ Len(DeltaEvents(published)) = 4
  /\ DeltaEvents(published)[1].chan = "abi_updates"
  /\ DeltaEvents(published)[2].chan = "block_table_deltas"
  /\ DeltaEvents(published)[2].ev.name = "account"
  /\ DeltaEvents(published)[3].chan = "table_row_updates"
  /\ DeltaEvents(published)[4].chan = "block_table_deltas"
  /\ DeltaEvents(published)[4].ev.name = "contract_row"

\* the exporter does not lag behind head hd: acknowledgement is off, or
\* fewer than max_unconfirmed blocks up to hd are unacknowledged
NoAckLag(hd) ==
  ~exporter_will_ack \/ hd - exporter_acked_block < exporter_max_unconfirmed

\* C32: with no ack lag and no queue overflow, an evaluation that finds
\* slowdown_requested takes the pause path and clears the flag, with a pause
\* of 100 ms when the loop was not pausing already; an evaluation that does
\* not find it reads at once with pause_time_msec reset to 0.
SlowdownOneShot ==
  [][ \A q \in QueueSizes :
        (Evaluates(q) /\ NoAckLag(head') /\ q <= MaxQueueSize)
          => /\ slowdown_requested
                  => /\ pc' = "async_wait"
                     /\ ~slowdown_requested'
                     /\ pause_time_msec = 0 => pause_time_msec' = PauseStart
             /\ ~slowdown_requested
                  => /\ pc' \in {"async_read", "failing_read"}
                     /\ pause_time_msec' = 0
                     /\ ~slowdown_requested' ]_vars

\* C33: a pausing evaluation publishes one receiver_pause event with the
\* head and the acknowledged block if and only if the updated
\* pause_time_msec is 2000 or more: the pauses of 100 to 1600 ms publish
\* none, every later one publishes exactly one; an evaluation that does not
\* pause publishes none.
PauseReportedFrom2000 ==
  [][ \A q \in QueueSizes :
        Evaluates(q)
          => IF pc' = "async_wait" /\ pause_time_msec' >= PauseReport
               THEN /\ Len(EventsOn(published', "receiver_pauses")) = 1
                    /\ published'[Len(published')] =
                         [chan |-> "receiver_pauses", priority |-> channel_priority,
                          ev |-> [head |-> head',
                                  acknowledged |-> exporter_acked_block]]
               ELSE EventsOn(published', "receiver_pauses") = << >> ]_vars

\* the first pause that is reported: the one after 1600 ms
FirstPauseReported ==
  /\ pc = "async_wait"
  /\ pause_time_msec >= PauseReport
  /\ pause_time_msec < 2 * PauseReport
  /\ Len(published) = 1
  /\ published[1].chan = "receiver_pauses"
  /\ published[1].ev.head = head

\* the store on which the scope of frame f is opened, from store d and head
\* hd: the revision raised to the block number, the fork rolled back
ScopeBase(f, d, hd) ==
  IF OnNewBranch(f, hd)
    THEN rollback(IF d.revision < BlockNumOf(f)
                    THEN db_set_revision(d, BlockNumOf(f)) ELSE d,
                  BlockNumOf(f)).db
    ELSE IF d.revision < BlockNumOf(f) THEN db_set_revision(d, BlockNumOf(f)) ELSE d

\* the undo state of a scope opened on store base
ScopeOn(base) == [revision |-> base.revision + 1, old |-> db_tables(base)]

\* C34: all that a frame writes to the persisted Receiver State, the ring
\* and the ABI Records is in one undo scope opened after the fork and
\* prev-hash adjudication.  A processed frame pushes that scope as one
\* revision: the undo stack is the adjudicated one with one state on top
\* that holds the tables as they were then, less what the commit drops.  A
\* frame that is aborted or throws leaves the store as it was when the scope
\* was opened, or as it was before the frame: no scope of it stays.
FrameAtomicity ==
  [][ (Received /\ HasBlock(result') /\ ret' # "hang")
        => IF ret' = "true"
             THEN /\ db'.revision = ScopeBase(result', db, head).revision + 1
                  /\ db'.stack =
                       PopCommitted(Append(ScopeBase(result', db, head).stack,
                                           ScopeOn(ScopeBase(result', db, head))),
                                    db'.commit_cursor)
             ELSE db' = ScopeBase(result', db, head) \/ db' = db ]_vars

\* a frame has thrown at its traces, after its ring entry and its ABI
\* Record were written: the account is loaded in the context, and the store
\* has neither the block nor the Record, above scopes that are pending
ThrownFrameLeftNoTrace ==
  /\ ret = "throw" /\ HasBlock(result)
  /\ IsSome(result.traces) /\ ~result.traces[1].decodes
  /\ head = BlockNumOf(result)
  /\ [block_index |-> head, block_id |-> head_id] \notin db.received_block_index
  /\ db.contract_abi_index = {}
  /\ contract_abi_imported # {}
  /\ Len(db.stack) > 0

\* C35: with acknowledgement enabled, an evaluation that finds acked_block
\* at or above head, no slowdown request and the reactor queue within
\* max_queue does not pause: the read is issued.
NoStallWhenAcked ==
  [][ \A q \in QueueSizes :
        (Evaluates(q) /\ exporter_will_ack /\ exporter_acked_block >= head'
           /\ ~slowdown_requested /\ q <= MaxQueueSize)
          => /\ pc' \in {"async_read", "failing_read"}
             /\ pause_time_msec' = 0 ]_vars

\* the head in the committed baseline of store d: the one a startup
\* recovery loads
BaselineHead(d) ==
  IF Len(d.stack) > 0
    THEN StoredHead(d.stack[1].old.state_index)
    ELSE StoredHead(d.state_index)

\* C36: once the receiver is started with acknowledgement enabled, the head
\* in the committed baseline of the store is never above acked_block, and
\* the get_blocks request starts at most one block above acked_block: a
\* recovery at any point resumes at or below the first unacknowledged block.
NoUnackedBlockSkipped ==
  (exporter_will_ack /\ pc # "constructed")
    => /\ BaselineHead(db) <= exporter_acked_block
       /\ IsSome(request) => request[1].start_block_num <= exporter_acked_block + 1

\* blocks above acked_block are pending above a committed baseline that
\* holds a block: the commit was held back by the acknowledgement
BaselineHeldAtAck ==
  /\ exporter_will_ack /\ ret = "true"
  /\ BaselineHead(db) > 0
  /\ Len(db.stack) > 0
  /\ head > exporter_acked_block
  /\ irreversible > BaselineHead(db)

\* the state_index of the committed baseline of store d
BaselineState(d) ==
  IF Len(d.stack) > 0 THEN d.stack[1].old.state_index ELSE d.state_index

\* C37: after a processed frame the store holds one state record, equal to
\* head, head_id, irreversible and irreversible_id in memory, which are the
\* frame's; the store and its undo states never hold more than one record;
\* and after start() the values in memory are those of the record of the
\* committed baseline, or zero when it has none.
StateRecordMirrorsMemory ==
  [][ /\ (Received /\ ret' = "true" /\ HasBlock(result'))
           => /\ db'.state_index =
                   << [ head |-> head', head_id |-> head_id',
                        irreversible |-> irreversible',
                        irreversible_id |-> irreversible_id' ] >>
              /\ head' = BlockNumOf(result') /\ head_id' = BlockIdOf(result')
              /\ irreversible' = LibOf(result')
      /\ Start
           => /\ db'.state_index = BaselineState(db)
              /\ IF Len(BaselineState(db)) > 0
                   THEN /\ head' = BaselineState(db)[1].head
                        /\ head_id' = BaselineState(db)[1].head_id
                        /\ irreversible' = BaselineState(db)[1].irreversible
                        /\ irreversible_id' = BaselineState(db)[1].irreversible_id
                   ELSE /\ head' = 0 /\ head_id' = ZeroId
                        /\ irreversible' = 0 /\ irreversible_id' = ZeroId
      /\ Len(db'.state_index) <= 1
      /\ \A i \in 1..Len(db'.stack) : Len(db'.stack[i].old.state_index) <= 1 ]_vars

\* a frame was processed on a store that had a state record: the record was
\* modified to the frame's positions, and the frame's undo state keeps the
\* record of the block before
StateRecordModified ==
  /\ ret = "true" /\ HasBlock(result)
  /\ Len(db.stack) > 0
  /\ Len(db.stack[Len(db.stack)].old.state_index) = 1
  /\ db.stack[Len(db.stack)].old.state_index[1].head # head
  /\ Len(db.state_index) = 1
  /\ db.state_index[1].head = head
  /\ db.state_index[1].irreversible = irreversible

\* C38: the rollback of every fork frame ends: the handler comes to the
\* scope of the new block or to a hard error that closes the loop, it is
\* never left undoing on an empty undo stack.
RollbackTerminates ==
  [][ (Received /\ OnNewBranch(result', head))
        => /\ ret' \in {"true", "false", "throw"}
           /\ pc' # "hung"
           /\ ret' = "throw" => (pc' = "none" /\ ~stream_open') ]_vars

====
